---- MODULE Spec2Model ----
(***************************************************************************)
(* KU Polls: the question eligibility rules (polls/models.py) and the      *)
(* vote / clear request handlers (polls/views.py) over the Vote table.     *)
(*                                                                         *)
(* Spec      vote and clear requests are handled one after another (each   *)
(*           handler runs to completion); the clock advances in between.   *)
(* SpecRead  the read-only side: any schedule of the questions, the clock, *)
(*           and the detail view, which evaluates can_vote.                *)
(* SpecConc  every worker handles one request; the database statements of  *)
(*           different workers interleave (autocommit, no transaction and  *)
(*           no unique constraint on the Vote table).                      *)
(***************************************************************************)
EXTENDS Integers, FiniteSets, Sequences, TLC

\* ---------------------------------------------------------------- bounds
NumUsers == 3
NumQuestions == 2
ChoicesPerQuestion == 2
MaxTime == 2
MaxVoteId == 3
NumWorkers == 2

\* ------------------------------------------------------------ value sets
\* request.user of a request without a session (is_authenticated is false)
Anonymous == 0
Users == 1..NumUsers
Questions == 1..NumQuestions
Choices == 1..(NumQuestions * ChoicesPerQuestion)
Times == 0..MaxTime
Workers == 1..NumWorkers

\* end_date = None (null=True, default=None)
None == -1
\* a primary key that names no row (question_id, POST["choice"]), no object
NoSuchId == 0
\* request.POST without the key "choice"
NoChoiceKey == -2

QuestionIds == Questions \cup {NoSuchId}
ChoiceInputs == Choices \cup {NoSuchId, NoChoiceKey}

VARIABLES
    now,        \* timezone.now()
    questions,  \* the Question table: question id -> row
    votes,      \* the Vote table: a set of rows
    nextId,     \* the next value of the Vote table's auto primary key
    last,       \* the response to the most recent request (Spec, SpecRead)
    lastCast,   \* per user and question: the choice of the latest vote saved
    votes0,     \* SpecConc: the Vote table before the workers started
    req         \* SpecConc: per worker, its request and where it stands

vars == <<now, questions, votes, nextId, last, lastCast, votes0, req>>

\* ------------------------------------------------------------ the tables
\* Choice.question: the question a choice row belongs to
ChoiceQuestion(c) == ((c - 1) \div ChoicesPerQuestion) + 1

\* question.choice_set
choice_set(q) == {c \in Choices : ChoiceQuestion(c) = q}

\* a row of the Vote table: auto primary key, user and choice foreign keys
VoteRows == [id : 1..MaxVoteId, user : Users, choice : Choices]

\* a row of the Question table: pub_date and the optional end_date
QuestionRows == [pub_date : Times, end_date : Times \cup {None}]

\* Question(): pub_date defaults to timezone.now(), end_date to None
DefaultQuestion(t) == [pub_date |-> t, end_date |-> None]

\* ------------------------------------------------- Question (models.py)
is_published_Strict(q, t) == questions[q].pub_date < t

is_published(q, t) == questions[q].pub_date <= t

can_vote_Strict(q, t) ==
    IF questions[q].end_date # None
    THEN is_published(q, t) /\ t < questions[q].end_date
    ELSE is_published(q, t)

can_vote_NoEnd(q, t) == is_published(q, t)

can_vote(q, t) ==
    IF questions[q].end_date # None
    THEN is_published(q, t) /\ t <= questions[q].end_date
    ELSE is_published(q, t)

\* datetime.timedelta(days=1), in clock ticks
OneDay == 1

was_published_recently_Open(q, t) ==
    t - OneDay < questions[q].pub_date /\ questions[q].pub_date <= t

was_published_recently(q, t) ==
    t - OneDay <= questions[q].pub_date /\ questions[q].pub_date <= t

\* Vote.objects.filter(user=user, choice__question=question)
VoteFilter(tbl, u, q) == {v \in tbl : v.user = u /\ ChoiceQuestion(v.choice) = q}

cur_user_voted(q, u) == VoteFilter(votes, u, q) # {}

\* Question.cur_user_choice: the choice of the first row of an unordered
\* filter (any of the matching rows), None on IndexError; the possible results
cur_user_choice(q, u) ==
    IF VoteFilter(votes, u, q) = {} THEN {NoSuchId}
    ELSE {v.choice : v \in VoteFilter(votes, u, q)}

\* Choice.votes: self.vote_set.count()
Votes(c) == Cardinality({v \in votes : v.choice = c})

\* ------------------------------------------------------- ORM statements
Got(found, id) == [found |-> found, id |-> id]

VoteGet_Miss(tbl, u, q) == Got("DoesNotExist", NoSuchId)

VoteGet_AnyQuestion(tbl, u, q) ==
    LET m == {v \in tbl : v.user = u}
    IN  IF m = {} THEN Got("DoesNotExist", NoSuchId)
        ELSE IF Cardinality(m) > 1 THEN Got("MultipleObjectsReturned", NoSuchId)
        ELSE Got("one", (CHOOSE v \in m : TRUE).id)

\* Vote.objects.get(user=current_user, choice__question=question): the one
\* matching row, or DoesNotExist, or MultipleObjectsReturned
VoteGet(tbl, u, q) ==
    LET m == VoteFilter(tbl, u, q)
    IN  IF m = {} THEN Got("DoesNotExist", NoSuchId)
        ELSE IF Cardinality(m) > 1 THEN Got("MultipleObjectsReturned", NoSuchId)
        ELSE Got("one", (CHOOSE v \in m : TRUE).id)

SaveVote_Forgot(tbl, id, u, c) == tbl

\* vote.choice = selected_choice; vote.save(): UPDATE by primary key, and
\* when no row has that key any more, INSERT the row under the same key
SaveVote(tbl, id, u, c) ==
    {v \in tbl : v.id # id} \cup {[id |-> id, user |-> u, choice |-> c]}

\* Vote.objects.create(user=current_user, choice=selected_choice)
CreateVote(tbl, id, u, c) == tbl \cup {[id |-> id, user |-> u, choice |-> c]}

DeleteVote_AllOfUser(tbl, id) ==
    {v \in tbl : \A w \in tbl : w.id = id => v.user # w.user}

\* vote.delete(): DELETE by primary key
DeleteVote(tbl, id) == {v \in tbl : v.id # id}

QuestionExists_Unchecked(qid) == TRUE

\* get_object_or_404(Question, pk=question_id) finds the question
QuestionExists(qid) == qid \in Questions

ChoiceError_AnyQuestion(qid, cin) ==
    IF cin = NoChoiceKey THEN "missing"
    ELSE IF cin \notin Choices THEN "unknown"
    ELSE "none"

\* why question.choice_set.get(pk=request.POST["choice"]) finds no choice
ChoiceError(qid, cin) ==
    IF cin = NoChoiceKey THEN "missing"
    ELSE IF cin \notin Choices THEN "unknown"
    ELSE IF cin \notin choice_set(qid) THEN "other_question"
    ELSE "none"

\* ------------------------------------------------------------- responses
\* the response to a request, with the objects the handler had looked up
\* when it responded (NoSuchId, Anonymous: not looked up)
Response(op, u, q, c, status) ==
    [op |-> op, user |-> u, question |-> q, choice |-> c, status |-> status]

NoRequest == Response("none", Anonymous, NoSuchId, NoSuchId, "none")

\* a worker and its request: pc is the statement it executes next
Request(pc, op, u, q, c, id, status) ==
    [pc |-> pc, op |-> op, user |-> u, question |-> q, choice |-> c,
     vote |-> id, status |-> status]

IdleReq == Request("idle", "none", Anonymous, NoSuchId, NoSuchId, NoSuchId, "none")

\* ------------------------------------------------------------------ Init
\* the polls of the test fixtures: one that opens at 1 and closes at 1
\* (create_question with pub_days and end_days), the others Question()
FixtureQuestions ==
    [q \in Questions |->
        IF q = 1 THEN [pub_date |-> 1, end_date |-> 1] ELSE DefaultQuestion(0)]

Init ==
    /\ now = 0
    /\ questions = FixtureQuestions
    /\ votes = {}
    /\ nextId = 1
    /\ last = NoRequest
    /\ lastCast = [u \in Users |-> [q \in Questions |-> NoSuchId]]
    /\ votes0 = {}
    /\ req = [w \in Workers |-> IdleReq]

\* the clock advances
Tick ==
    /\ now < MaxTime
    /\ now' = now + 1
    /\ UNCHANGED <<questions, votes, nextId, last, lastCast, votes0, req>>

\* views.vote handled without interleaving (login_required: u is a user)
Vote(u, qid, cin) ==
    /\ UNCHANGED <<now, questions, votes0, req>>
    /\ IF ~QuestionExists(qid)
       THEN /\ last' = Response("vote", Anonymous, NoSuchId, NoSuchId, "404")
            /\ UNCHANGED <<votes, nextId, lastCast>>
       ELSE IF ChoiceError(qid, cin) # "none"
       THEN /\ last' = Response("vote", Anonymous, qid, NoSuchId, ChoiceError(qid, cin))
            /\ UNCHANGED <<votes, nextId, lastCast>>
       ELSE LET got == VoteGet(votes, u, qid) IN
            IF got.found = "MultipleObjectsReturned"
            THEN /\ last' = Response("vote", u, qid, cin, "500")
                 /\ UNCHANGED <<votes, nextId, lastCast>>
            ELSE IF got.found = "one"
            THEN /\ votes' = SaveVote(votes, got.id, u, cin)
                 /\ last' = Response("vote", u, qid, cin, "voted")
                 /\ lastCast' = [lastCast EXCEPT ![u][qid] = cin]
                 /\ UNCHANGED nextId
            ELSE /\ nextId <= MaxVoteId
                 /\ votes' = CreateVote(votes, nextId, u, cin)
                 /\ nextId' = nextId + 1
                 /\ last' = Response("vote", u, qid, cin, "voted")
                 /\ lastCast' = [lastCast EXCEPT ![u][qid] = cin]

\* views.clear handled without interleaving (login_required: u is a user)
Clear(u, qid) ==
    /\ UNCHANGED <<now, questions, nextId, lastCast, votes0, req>>
    /\ IF ~QuestionExists(qid)
       THEN /\ last' = Response("clear", Anonymous, NoSuchId, NoSuchId, "404")
            /\ UNCHANGED votes
       ELSE LET got == VoteGet(votes, u, qid) IN
            IF got.found = "MultipleObjectsReturned"
            THEN /\ last' = Response("clear", u, qid, NoSuchId, "500")
                 /\ UNCHANGED votes
            ELSE IF got.found = "one"
            THEN /\ votes' = DeleteVote(votes, got.id)
                 /\ last' = Response("clear", u, qid, NoSuchId, "cleared")
            ELSE /\ last' = Response("clear", u, qid, NoSuchId, "not_voted")
                 /\ UNCHANGED votes

Next ==
    \/ Tick
    \/ \E u \in Users, qid \in QuestionIds, cin \in ChoiceInputs : Vote(u, qid, cin)
    \/ \E u \in Users, qid \in QuestionIds : Clear(u, qid)

Spec == Init /\ [][Next]_vars

\* ------------------------------------------------------------- SpecRead
\* DetailView.get with get_context_data: render the poll for a logged-in
\* user while voting is allowed, else redirect to the index with a message
Detail(u, qid) ==
    /\ UNCHANGED <<now, questions, votes, nextId, lastCast, votes0, req>>
    /\ IF u = Anonymous
       THEN last' = Response("detail", Anonymous, NoSuchId, NoSuchId, "login_first")
       ELSE IF qid \notin Questions
       THEN last' = Response("detail", u, NoSuchId, NoSuchId, "no_poll")
       ELSE IF ~can_vote(qid, now)
       THEN last' = Response("detail", u, qid, NoSuchId, "not_available")
       ELSE LET got == VoteGet(votes, u, qid) IN
            IF got.found = "MultipleObjectsReturned"
            THEN last' = Response("detail", u, qid, NoSuchId, "500")
            ELSE IF got.found = "one"
            THEN last' = Response("detail", u, qid,
                                  (CHOOSE v \in votes : v.id = got.id).choice, "200")
            ELSE last' = Response("detail", u, qid, NoSuchId, "200")

PublishedQuestions_Open(t) == {q \in Questions : can_vote(q, t)}

\* Question.objects.filter(pub_date__lte=timezone.now())
PublishedQuestions(t) == {q \in Questions : questions[q].pub_date <= t}

IndexQuerysets_OldestFirst(t) ==
    LET P == PublishedQuestions(t)
    IN  {s \in [1..Cardinality(P) -> P] :
            /\ \A i, j \in 1..Cardinality(P) : i # j => s[i] # s[j]
            /\ \A i, j \in 1..Cardinality(P) :
                  i < j => questions[s[i]].pub_date <= questions[s[j]].pub_date}

\* IndexView.get_queryset: the published questions, order_by("-pub_date");
\* the order of questions with equal pub_date is the database's: the
\* possible results
IndexQuerysets(t) ==
    LET P == PublishedQuestions(t)
    IN  {s \in [1..Cardinality(P) -> P] :
            /\ \A i, j \in 1..Cardinality(P) : i # j => s[i] # s[j]
            /\ \A i, j \in 1..Cardinality(P) :
                  i < j => questions[s[i]].pub_date >= questions[s[j]].pub_date}

\* the response of the index page: latest_question_list with the
\* user_voted and user_choice that get_context_data attaches
IndexResponse(u, list) ==
    [op |-> "index", user |-> u, question |-> NoSuchId, choice |-> NoSuchId,
     status |-> "200", list |-> list]

\* IndexView: get_queryset and get_context_data
Index(u) ==
    /\ UNCHANGED <<now, questions, votes, nextId, lastCast, votes0, req>>
    /\ \E s \in IndexQuerysets(now) :
       \E ch \in [1..Len(s) -> Choices \cup {NoSuchId}] :
          /\ \A i \in 1..Len(s) : ch[i] \in cur_user_choice(s[i], u)
          /\ last' = IndexResponse(u,
                [i \in 1..Len(s) |->
                    [question |-> s[i],
                     user_voted |-> cur_user_voted(s[i], u),
                     user_choice |-> ch[i]]])

\* ResultsView: DetailView.get over get_queryset (no login required)
Results(qid) ==
    /\ UNCHANGED <<now, questions, votes, nextId, lastCast, votes0, req>>
    /\ IF qid \in PublishedQuestions(now)
       THEN last' = Response("results", Anonymous, qid, NoSuchId, "200")
       ELSE last' = Response("results", Anonymous, qid, NoSuchId, "404")

\* the Vote tables with at most one row
InitLedgers ==
    {{}} \cup {{[id |-> 1, user |-> u, choice |-> c]} : u \in Users, c \in Choices}

\* the latest vote saved per user and question, for a table with at most
\* one Vote per user and question
LastCastOf(tbl) ==
    [u \in Users |-> [q \in Questions |->
        IF VoteFilter(tbl, u, q) = {} THEN NoSuchId
        ELSE (CHOOSE v \in VoteFilter(tbl, u, q) : TRUE).choice]]

InitRead ==
    /\ now = 0
    /\ questions \in [Questions -> QuestionRows]
    /\ votes \in InitLedgers
    /\ nextId = Cardinality(votes) + 1
    /\ last = NoRequest
    /\ lastCast = LastCastOf(votes)
    /\ votes0 = votes
    /\ req = [w \in Workers |-> IdleReq]

NextRead ==
    \/ Tick
    \/ \E u \in Users \cup {Anonymous}, qid \in QuestionIds : Detail(u, qid)
    \/ \E u \in Users \cup {Anonymous} : Index(u)
    \/ \E qid \in QuestionIds : Results(qid)

SpecRead == InitRead /\ [][NextRead]_vars

\* C9: without end_date can_vote is is_published; with end_date can_vote is
\* is_published and now <= end_date: allowed at end_date itself, not after.
C9_CanVoteWindow ==
    \A q \in Questions :
        LET pub == questions[q].pub_date
            end == questions[q].end_date
        IN  /\ end = None => (can_vote(q, now) <=> is_published(q, now))
            /\ end # None => (can_vote(q, now) <=> (is_published(q, now) /\ now <= end))
            /\ (end # None /\ now = end /\ pub <= now) => can_vote(q, now)
            /\ (end # None /\ now > end) => ~can_vote(q, now)

\* the detail view rendered a poll at the very instant of its end_date
C9_Witness ==
    /\ last.op = "detail" /\ last.status = "200"
    /\ questions[last.question].end_date = now
    /\ can_vote(last.question, now)

\* C10: is_published is true exactly when now >= pub_date.
C10_IsPublished ==
    \A q \in Questions :
        /\ is_published(q, now) <=> now >= questions[q].pub_date
        /\ questions[q].pub_date = now => is_published(q, now)
        /\ questions[q].pub_date > now => ~is_published(q, now)

\* the detail view rendered a poll at the very instant of its pub_date,
\* while another poll is still to be published
C10_Witness ==
    /\ last.op = "detail" /\ last.status = "200"
    /\ questions[last.question].pub_date = now
    /\ is_published(last.question, now)
    /\ \E q \in Questions : ~is_published(q, now)

\* C11: was_published_recently is true exactly when pub_date lies in the
\* closed interval [now - 1 day, now]: false for a pub_date in the future
\* and for one older than a day, true at both ends.
C11_WasPublishedRecently ==
    \A q \in Questions :
        LET pub == questions[q].pub_date
        IN  /\ was_published_recently(q, now) <=> (now - OneDay <= pub /\ pub <= now)
            /\ pub > now => ~was_published_recently(q, now)
            /\ pub < now - OneDay => ~was_published_recently(q, now)
            /\ (pub = now \/ pub = now - OneDay) => was_published_recently(q, now)

\* one poll was published exactly one day ago and counts as recent, another
\* is older than a day and does not
C11_Witness ==
    \E q, r \in Questions :
        /\ questions[q].pub_date = now - OneDay /\ was_published_recently(q, now)
        /\ questions[r].pub_date < now - OneDay /\ ~was_published_recently(r, now)

C17_IndexListsPublishedNewestFirst ==
    [][(now' = now /\ last'.op = "index")
       => LET list == last'.list
          IN  /\ {list[i].question : i \in 1..Len(list)}
                   = {q \in Questions : questions[q].pub_date <= now}
              /\ \A i, j \in 1..Len(list) :
                    i # j => list[i].question # list[j].question
              /\ \A i, j \in 1..Len(list) :
                    i < j => questions[list[i].question].pub_date
                               >= questions[list[j].question].pub_date]_vars

\* the index listed two polls published at different times, the newer first
C17_Witness ==
    /\ last.op = "index"
    /\ Len(last.list) = 2
    /\ questions[last.list[1].question].pub_date
         > questions[last.list[2].question].pub_date

\* C18: the results page of a question whose pub_date is in the future is a
\* 404; that of a question published by now is shown, closed or not.
C18_ResultsOfPublishedQuestions ==
    [][(now' = now /\ last'.op = "results" /\ last'.question \in Questions)
       => /\ questions[last'.question].pub_date > now => last'.status = "404"
          /\ questions[last'.question].pub_date <= now => last'.status = "200"]_vars

\* the results page of a poll whose end_date has passed was shown
C18_Witness ==
    /\ last.op = "results" /\ last.status = "200"
    /\ questions[last.question].pub_date < now
    /\ questions[last.question].end_date # None
    /\ questions[last.question].end_date < now

\* ------------------------------------------------------------- SpecConc
\* views.vote up to Vote.objects.get: resolve the question and the choice,
\* then look the user's vote up
VoteStart(w, u, qid, cin) ==
    /\ req[w].pc = "idle"
    /\ UNCHANGED <<now, questions, votes, nextId, last, lastCast, votes0>>
    /\ IF ~QuestionExists(qid)
       THEN req' = [req EXCEPT ![w] =
                Request("done", "vote", Anonymous, NoSuchId, NoSuchId, NoSuchId, "404")]
       ELSE IF ChoiceError(qid, cin) # "none"
       THEN req' = [req EXCEPT ![w] =
                Request("done", "vote", Anonymous, qid, NoSuchId, NoSuchId,
                        ChoiceError(qid, cin))]
       ELSE LET got == VoteGet(votes, u, qid) IN
            IF got.found = "MultipleObjectsReturned"
            THEN req' = [req EXCEPT ![w] =
                     Request("done", "vote", u, qid, cin, NoSuchId, "500")]
            ELSE IF got.found = "one"
            THEN req' = [req EXCEPT ![w] =
                     Request("save", "vote", u, qid, cin, got.id, "none")]
            ELSE req' = [req EXCEPT ![w] =
                     Request("create", "vote", u, qid, cin, NoSuchId, "none")]

\* views.vote, a vote was found: vote.choice = selected_choice; vote.save()
VoteSave(w) ==
    /\ req[w].pc = "save"
    /\ votes' = SaveVote(votes, req[w].vote, req[w].user, req[w].choice)
    /\ lastCast' = [lastCast EXCEPT ![req[w].user][req[w].question] = req[w].choice]
    /\ req' = [req EXCEPT ![w].pc = "done", ![w].status = "voted"]
    /\ UNCHANGED <<now, questions, nextId, last, votes0>>

\* views.vote, Vote.DoesNotExist: Vote.objects.create(...)
VoteCreate(w) ==
    /\ req[w].pc = "create"
    /\ nextId <= MaxVoteId
    /\ votes' = CreateVote(votes, nextId, req[w].user, req[w].choice)
    /\ nextId' = nextId + 1
    /\ lastCast' = [lastCast EXCEPT ![req[w].user][req[w].question] = req[w].choice]
    /\ req' = [req EXCEPT ![w].pc = "done", ![w].vote = nextId, ![w].status = "voted"]
    /\ UNCHANGED <<now, questions, last, votes0>>

\* views.clear up to Vote.objects.get
ClearStart(w, u, qid) ==
    /\ req[w].pc = "idle"
    /\ UNCHANGED <<now, questions, votes, nextId, last, lastCast, votes0>>
    /\ IF ~QuestionExists(qid)
       THEN req' = [req EXCEPT ![w] =
                Request("done", "clear", Anonymous, NoSuchId, NoSuchId, NoSuchId, "404")]
       ELSE LET got == VoteGet(votes, u, qid) IN
            IF got.found = "MultipleObjectsReturned"
            THEN req' = [req EXCEPT ![w] =
                     Request("done", "clear", u, qid, NoSuchId, NoSuchId, "500")]
            ELSE IF got.found = "one"
            THEN req' = [req EXCEPT ![w] =
                     Request("delete", "clear", u, qid, NoSuchId, got.id, "none")]
            ELSE req' = [req EXCEPT ![w] =
                     Request("done", "clear", u, qid, NoSuchId, NoSuchId, "not_voted")]

\* views.clear, a vote was found: vote.delete()
ClearDelete(w) ==
    /\ req[w].pc = "delete"
    /\ votes' = DeleteVote(votes, req[w].vote)
    /\ req' = [req EXCEPT ![w].pc = "done", ![w].status = "cleared"]
    /\ UNCHANGED <<now, questions, nextId, last, lastCast, votes0>>

InitConc ==
    /\ now = 0
    /\ questions = [q \in Questions |-> DefaultQuestion(0)]
    /\ votes \in InitLedgers
    /\ nextId = Cardinality(votes) + 1
    /\ last = NoRequest
    /\ lastCast = LastCastOf(votes)
    /\ votes0 = votes
    /\ req = [w \in Workers |-> IdleReq]

NextConc ==
    \/ \E w \in Workers, u \in Users, qid \in QuestionIds, cin \in ChoiceInputs :
          VoteStart(w, u, qid, cin)
    \/ \E w \in Workers : VoteSave(w)
    \/ \E w \in Workers : VoteCreate(w)
    \/ \E w \in Workers, u \in Users, qid \in QuestionIds : ClearStart(w, u, qid)
    \/ \E w \in Workers : ClearDelete(w)

SpecConc == InitConc /\ [][NextConc]_vars

\* every worker has answered a vote of user u for a choice of question q
AllVoted(u, q) ==
    \A w \in Workers :
        /\ req[w].pc = "done" /\ req[w].op = "vote"
        /\ req[w].user = u /\ req[w].question = q
        /\ req[w].choice \in choice_set(q)

\* C2 as claimed: when every worker has answered a vote of the same user
\* for the same question, each with a valid choice, and the user held no
\* vote on the question before, the table holds exactly one Vote for the
\* pair, for one of the submitted choices.
C2_ConcurrentVotesLeaveOneVote ==
    \A u \in Users, q \in Questions :
        (AllVoted(u, q) /\ VoteFilter(votes0, u, q) = {})
        => /\ Cardinality(VoteFilter(votes, u, q)) = 1
           /\ \A v \in VoteFilter(votes, u, q) : \E w \in Workers : v.choice = req[w].choice

\* ------------------------------------------------ the claims under Spec
VotesOf(u, q) == VoteFilter(votes, u, q)

\* a step that handles a request: the clock stands still and last' is the
\* response of this very step (a step that changes nothing is a stutter)
RequestStep == now' = now

\* C1: handled one after another, the requests leave at most one Vote per
\* user and question, and its choice is the one of the latest vote saved
\* for that user and question.
C1_OneVotePerUserAndQuestion ==
    \A u \in Users, q \in Questions :
        /\ Cardinality(VotesOf(u, q)) <= 1
        /\ \A v \in VotesOf(u, q) : v.choice = lastCast[u][q]

\* a user's vote was overwritten: the row is older than the newest row, and
\* the user's latest request has just set its choice
C1_Witness ==
    /\ last.op = "vote" /\ last.status = "voted"
    /\ \E v \in VotesOf(last.user, last.question) :
          v.choice = last.choice /\ v.id < nextId - 1

\* C3 as claimed: a vote for a valid choice of a question whose end_date has
\* passed answers VotingClosed and leaves the Vote table as it was.
C3_ClosedQuestionRejectsVote ==
    [][(/\ RequestStep
        /\ last'.op = "vote"
        /\ last'.question \in Questions
        /\ last'.choice \in Choices
        /\ questions[last'.question].end_date # None
        /\ now > questions[last'.question].end_date)
       => (last'.status = "VotingClosed" /\ votes' = votes)]_vars

\* C4 as claimed: no Vote references a choice of a question that has not
\* been published yet.
C4_NoVoteBeforePublication ==
    \A v \in votes : is_published(ChoiceQuestion(v.choice), now)

\* C5: a vote that repeats the user's previous request (same user, question
\* and choice, both saved) leaves the Vote table, hence every tally, as the
\* first one left it, with one row for the user and question.
C5_RepeatedVoteIsIdempotent ==
    [][(/\ RequestStep
        /\ last.op = "vote" /\ last.status = "voted"
        /\ last' = last)
       => (/\ votes' = votes
           /\ \A c \in Choices : Votes(c)' = Votes(c)
           /\ Cardinality(VotesOf(last.user, last.question)') = 1)]_vars

\* the same vote has been saved and the user holds one row with that choice
C5_Witness ==
    /\ last.op = "vote" /\ last.status = "voted"
    /\ \E v \in votes : VotesOf(last.user, last.question) = {v} /\ v.choice = last.choice
    /\ Votes(last.choice) = 1

RECURSIVE SumVotes(_)
SumVotes(cs) ==
    IF cs = {} THEN 0
    ELSE LET c == CHOOSE x \in cs : TRUE IN Votes(c) + SumVotes(cs \ {c})

\* the users who hold a vote on question q
Voters(q) == {u \in Users : cur_user_voted(q, u)}

\* a saved vote of a user who held another choice of the question
ReVote ==
    /\ RequestStep
    /\ last'.op = "vote" /\ last'.status = "voted"
    /\ \E v \in VotesOf(last'.user, last'.question) : v.choice # last'.choice

\* C6: the tallies of a question's choices add up to the number of users
\* holding a vote on it; when the votes on question 1 are u1->c1, u2->c1
\* and u3->c2, the tally of c1 is 2 and that of c2 is 1;
\* a re-vote moves exactly one count from the old choice to the new one.
C6_TallyCountsVotes ==
    /\ [](\A q \in Questions : SumVotes(choice_set(q)) = Cardinality(Voters(q)))
    /\ []((\E a, b, c \in votes :
              /\ a.user = 1 /\ a.choice = 1
              /\ b.user = 2 /\ b.choice = 1
              /\ c.user = 3 /\ c.choice = 2
              /\ {v \in votes : ChoiceQuestion(v.choice) = 1} = {a, b, c})
          => (Votes(1) = 2 /\ Votes(2) = 1))
    /\ [][ReVote =>
            \A c \in Choices :
                Votes(c)' =
                    IF c = last'.choice THEN Votes(c) + 1
                    ELSE IF \E v \in VotesOf(last'.user, last'.question) : v.choice = c
                    THEN Votes(c) - 1
                    ELSE Votes(c)]_vars

\* after u1->c1, u2->c1, u3->c2 user 1 has re-voted for c2: tally 1 and 2
C6_Witness ==
    /\ last = Response("vote", 1, 1, 2, "voted")
    /\ votes = {[id |-> 1, user |-> 1, choice |-> 2],
                [id |-> 2, user |-> 2, choice |-> 1],
                [id |-> 3, user |-> 3, choice |-> 2]}
    /\ Votes(1) = 1 /\ Votes(2) = 2

\* C7: clear by a user who holds no Vote on the question answers "You
\* haven't vote." and changes no row of the Vote table.
C7_ClearWithoutVote ==
    [][(/\ RequestStep
        /\ last'.op = "clear"
        /\ last'.question \in Questions
        /\ VotesOf(last'.user, last'.question) = {})
       => (last'.status = "not_voted" /\ votes' = votes)]_vars

\* a user without a vote on the question asked to clear while holding a vote
\* on another question, and another user holds one on this question
C7_Witness ==
    /\ last.op = "clear" /\ last.status = "not_voted"
    /\ \E v \in votes : v.user = last.user
    /\ \E v \in votes : v.user # last.user /\ ChoiceQuestion(v.choice) = last.question

\* C8: clear by a user who holds a Vote on the question deletes that row and
\* no other; a vote of that user on the question right after the clear
\* creates one row with the new choice.
C8_ClearDeletesOneVote ==
    [][/\ (/\ RequestStep
           /\ last'.op = "clear"
           /\ last'.question \in Questions
           /\ Cardinality(VotesOf(last'.user, last'.question)) = 1)
          => (/\ last'.status = "cleared"
              /\ votes' = votes \ VotesOf(last'.user, last'.question)
              /\ VoteFilter(votes', last'.user, last'.question) = {})
       /\ (/\ RequestStep
           /\ last.op = "clear" /\ last.status = "cleared"
           /\ last'.op = "vote" /\ last'.status = "voted"
           /\ last'.user = last.user /\ last'.question = last.question)
          => (/\ Cardinality(VotesOf(last.user, last.question)') = 1
              /\ \A v \in VotesOf(last.user, last.question)' : v.choice = last'.choice
              /\ \A v \in votes : v \in votes')]_vars

\* a vote was cleared while the same user holds a vote on another question
\* and another user holds a vote on the same question
C8_Witness ==
    /\ last.op = "clear" /\ last.status = "cleared"
    /\ VotesOf(last.user, last.question) = {}
    /\ \E v \in votes : v.user = last.user /\ ChoiceQuestion(v.choice) # last.question
    /\ \E v \in votes : v.user # last.user /\ ChoiceQuestion(v.choice) = last.question

ChoiceErrors == {"missing", "unknown", "other_question"}

\* C12: a vote without a choice, with a choice id that names no choice, or
\* with a choice of another question is answered "You didn't select a
\* choice." and changes nothing; a vote that is saved writes a row of the
\* user whose choice belongs to the question named in the request.
C12_InvalidChoiceRejected ==
    [][(RequestStep /\ last'.op = "vote" /\ last'.question \in Questions)
       => /\ last'.status \in ChoiceErrors
             => (votes' = votes /\ nextId' = nextId /\ lastCast' = lastCast)
          /\ last'.status \notin ChoiceErrors
             => /\ last'.choice \in choice_set(last'.question)
                /\ \A v \in votes' \ votes :
                      /\ v.user = last'.user
                      /\ v.choice = last'.choice
                      /\ ChoiceQuestion(v.choice) = last'.question]_vars

\* a choice of another question was refused while the Vote table holds rows
C12_Witness ==
    /\ last.op = "vote" /\ last.status = "other_question"
    /\ last.question \in Questions
    /\ votes # {}
    /\ \A v \in votes : \E q \in Questions : v \in VotesOf(v.user, q)

\* C13: vote and clear for a question_id that names no question answer 404
\* and change nothing: no row of the Vote table is read or written.
C13_UnknownQuestionIs404 ==
    [][(RequestStep /\ last'.op \in {"vote", "clear"})
       => /\ last'.question \notin Questions <=> last'.status = "404"
          /\ last'.status = "404"
             => (votes' = votes /\ nextId' = nextId /\ lastCast' = lastCast)]_vars

\* a clear for an unknown question was answered 404 while the table holds rows
C13_Witness ==
    /\ last.op = "clear" /\ last.status = "404"
    /\ last.question \notin Questions
    /\ votes # {}

\* ------------------------------------------- further claims under SpecConc
\* worker w has answered a vote by writing a row that did not exist before
\* the workers started (two such workers created a row each exactly when
\* the rows they wrote differ)
CreatedOwnRow(w) ==
    /\ req[w].pc = "done" /\ req[w].op = "vote" /\ req[w].status = "voted"
    /\ \A v \in votes0 : v.id # req[w].vote

\* C14 as claimed: when two votes for the same user and question both find
\* no vote, the second write is detected as a conflict and the request
\* re-reads and updates the first one's row, or reports a transient failure:
\* the two requests never both end having created a row of their own, and
\* no second row for the pair remains.
C14_ConflictRetriedOnce ==
    \A w1, w2 \in Workers :
        (/\ w1 # w2
         /\ CreatedOwnRow(w1) /\ CreatedOwnRow(w2)
         /\ req[w1].user = req[w2].user /\ req[w1].question = req[w2].question)
        => /\ req[w1].vote = req[w2].vote
           /\ Cardinality(VoteFilter(votes, req[w1].user, req[w1].question)) <= 1

\* worker w has looked up the vote of a user on a question
Active(w) == req[w].pc # "idle" /\ req[w].user \in Users

\* the workers that have looked a vote up did so for different pairs of
\* user and question
DistinctKeys ==
    \A w1, w2 \in Workers :
        (w1 # w2 /\ Active(w1) /\ Active(w2))
        => (req[w1].user # req[w2].user \/ req[w1].question # req[w2].question)

\* C15: requests for different pairs of user and question run in parallel
\* without a lock: the next statement of every request in flight can always
\* execute, a request leaves the rows of every other pair as they were, and
\* every pair ends as if its request had run alone, one after another.
C15_DifferentKeysInParallel ==
    DistinctKeys =>
        /\ \A w \in Workers :
              /\ req[w].pc = "save" => ENABLED VoteSave(w)
              /\ req[w].pc = "create" => ENABLED VoteCreate(w)
              /\ req[w].pc = "delete" => ENABLED ClearDelete(w)
        /\ \A w \in Workers : Active(w) =>
              LET mine == VoteFilter(votes, req[w].user, req[w].question)
                  before == VoteFilter(votes0, req[w].user, req[w].question)
              IN  IF req[w].pc # "done" THEN mine = before
                  ELSE IF req[w].op = "vote"
                  THEN /\ req[w].status = "voted"
                       /\ \E v \in mine : mine = {v} /\ v.choice = req[w].choice
                       /\ before # {} => \E v \in before : \E m \in mine : m.id = v.id
                  ELSE /\ mine = {}
                       /\ req[w].status = IF before = {} THEN "not_voted" ELSE "cleared"
        /\ \A u \in Users, q \in Questions :
              (\A w \in Workers : Active(w) => (req[w].user # u \/ req[w].question # q))
              => VoteFilter(votes, u, q) = VoteFilter(votes0, u, q)

\* a vote has been saved for one user while the clear of another user on the
\* same question is in flight, between its lookup and its delete
C15_Witness ==
    /\ DistinctKeys
    /\ \E w1, w2 \in Workers :
          /\ req[w1].pc = "done" /\ req[w1].op = "vote" /\ req[w1].status = "voted"
          /\ req[w2].pc = "delete"
          /\ req[w1].question = req[w2].question
          /\ req[w1].user # req[w2].user

\* C19 as claimed: once a user holds more than one Vote on a question, every
\* lookup of that user's vote on that question reports an error instead of
\* returning one of the rows: Vote.objects.get in vote, clear and the detail
\* view, and Question.cur_user_choice.
C19_DuplicateVotesAreReported ==
    \A u \in Users, q \in Questions :
        Cardinality(VoteFilter(votes, u, q)) > 1
        => /\ VoteGet(votes, u, q).found = "MultipleObjectsReturned"
           /\ \A c \in cur_user_choice(q, u) : c \notin Choices

\* the user's vote on the question before the workers started is still the
\* user's only vote on it, with the choice written by the latest save
OneVoteReassigned(u, q) ==
    \E v0 \in votes0 : \E v \in votes :
        /\ VoteFilter(votes0, u, q) = {v0}
        /\ VoteFilter(votes, u, q) = {v}
        /\ v.id = v0.id
        /\ v.choice = lastCast[u][q]

\* C20: when the user holds exactly one Vote on the question and no clear of
\* it runs, concurrent votes of that user on that question leave exactly one
\* Vote under every interleaving: each reassigns the choice of the existing
\* row, and the row ends with the choice written by the last save.
C20_ConcurrentReVotesKeepOneVote ==
    \A u \in Users, q \in Questions :
        (/\ Cardinality(VoteFilter(votes0, u, q)) = 1
         /\ \A w \in Workers :
               (Active(w) /\ req[w].user = u /\ req[w].question = q)
               => req[w].op = "vote")
        => OneVoteReassigned(u, q)

\* every worker has answered a vote of the same user on the same question,
\* not all for the same choice, and the user held a vote on it before
C20_Witness ==
    \E u \in Users, q \in Questions :
        /\ AllVoted(u, q)
        /\ \A w \in Workers : req[w].status = "voted"
        /\ \E w1, w2 \in Workers : req[w1].choice # req[w2].choice
        /\ OneVoteReassigned(u, q)

\* worker w has looked up the vote of user u on question q
OnPair(w, u, q) == Active(w) /\ req[w].user = u /\ req[w].question = q

\* the user held one vote on the question before the workers started, and
\* the requests in flight or answered for the pair are at most one vote and
\* at most one clear
CastAndClearOnly(u, q) ==
    /\ Cardinality(VoteFilter(votes0, u, q)) = 1
    /\ Cardinality({w \in Workers : OnPair(w, u, q) /\ req[w].op = "vote"}) <= 1
    /\ Cardinality({w \in Workers : OnPair(w, u, q) /\ req[w].op = "clear"}) <= 1

\* C21: a vote and a clear of the same user on the same question, run
\* concurrently while the user holds one Vote on it, leave at most one Vote
\* for the pair under every interleaving of their lookups and writes; neither
\* ends in an unhandled error (the vote is answered "voted", the clear
\* "cleared" or "You haven't vote."); and once both are answered the user
\* holds no vote on the question or one vote for the choice of the vote
\* request.
C21_VoteAndClearInParallel ==
    \A u \in Users, q \in Questions :
        CastAndClearOnly(u, q) =>
            /\ Cardinality(VoteFilter(votes, u, q)) <= 1
            /\ \A w \in Workers :
                  OnPair(w, u, q) =>
                      /\ req[w].status # "500"
                      /\ (req[w].pc = "done" /\ req[w].op = "vote")
                         => req[w].status = "voted"
                      /\ (req[w].pc = "done" /\ req[w].op = "clear")
                         => req[w].status \in {"cleared", "not_voted"}
            /\ \A w1, w2 \in Workers :
                  (/\ OnPair(w1, u, q) /\ req[w1].op = "vote" /\ req[w1].pc = "done"
                   /\ OnPair(w2, u, q) /\ req[w2].op = "clear" /\ req[w2].pc = "done")
                  => \/ VoteFilter(votes, u, q) = {}
                     \/ \E v \in votes :
                           VoteFilter(votes, u, q) = {v} /\ v.choice = req[w1].choice

\* the vote and the clear both found the user's row, the clear deleted it and
\* the vote's save then wrote it again: both are answered, and the row is
\* back under its old primary key with the new choice
C21_Witness ==
    \E u \in Users, q \in Questions : \E w1, w2 \in Workers :
        /\ CastAndClearOnly(u, q)
        /\ OnPair(w1, u, q) /\ req[w1].op = "vote" /\ req[w1].status = "voted"
        /\ OnPair(w2, u, q) /\ req[w2].op = "clear" /\ req[w2].status = "cleared"
        /\ \E v0 \in votes0 : \E v \in votes :
              /\ VoteFilter(votes0, u, q) = {v0}
              /\ VoteFilter(votes, u, q) = {v}
              /\ v.id = v0.id
              /\ v.choice = req[w1].choice
              /\ v.choice # v0.choice

====
